---------------------------- MODULE Spec2Model ----------------------------
(***************************************************************************)
(* SAM-Radar (src/app.py): alias resolution, query bank, the three         *)
(* connectors (NewsData, DuckDuckGo, Bing), add_hits (dedup by normalized  *)
(* link, relevance filter, max_total), the domain-priority re-sort, and    *)
(* the keyword risk scorer.                                                *)
(*                                                                         *)
(* Python strings are TLA+ strings; a character is a string of length 1.   *)
(* A JSON value that the code does not type-check is a record [t, v]:      *)
(* t = "str" (v the string), "null" (None) or "num" (a number, v unused).  *)
(***************************************************************************)
EXTENDS Integers, Sequences, FiniteSets, TLC

VARIABLES
    entity_name,          \* smart_fetch_entity argument
    alias_overrides,      \* module global: sequence of <<key, alias list>> in dict order
    use_newsdata,         \* smart_fetch_entity argument
    NEWSDATA_KEY,         \* os.environ["NEWSDATA_KEY"] ("" when unset)
    use_aliasing,         \* smart_fetch_entity argument
    per_source_limit,     \* smart_fetch_entity argument
    max_total,            \* smart_fetch_entity argument
    domain_priority_list, \* smart_fetch_entity argument: [given, list] (given = FALSE is None)
    aliases,              \* local of smart_fetch_entity
    query_bank,           \* local of smart_fetch_entity
    results,              \* local of smart_fetch_entity
    seen_links,           \* local of smart_fetch_entity
    pc,                   \* position in smart_fetch_entity
    idx,                  \* 1-based position of the running for loop
    calls,                \* connector calls made so far: sequence of [conn, idx]
    batch,                \* hits returned by the last connector call
    log,                  \* what add_hits did with each hit of batch it reached
    failed,               \* the last connector call hit an exception, an HTTP error or a missing key
    prev,                 \* results before the last connector call
    text,                 \* risk_level_from_text argument
    level                 \* risk_level_from_text result

vars == <<entity_name, alias_overrides, use_newsdata, NEWSDATA_KEY, use_aliasing,
          per_source_limit, max_total, domain_priority_list, aliases, query_bank,
          results, seen_links, pc, idx, calls, batch, log, failed, prev, text, level>>

scanVars == <<entity_name, alias_overrides, use_newsdata, NEWSDATA_KEY, use_aliasing,
              per_source_limit, max_total, domain_priority_list, aliases, query_bank,
              results, seen_links, pc, idx, calls, batch, log, failed, prev>>

-----------------------------------------------------------------------------
(* Python str primitives *)

UpperAlpha == "ABCDEFGHIJKLMNOPQRSTUVWXYZ"

LowerAlpha == "abcdefghijklmnopqrstuvwxyz"

DigitsUnderscore == "0123456789_"

Whitespace == {" ", "\t", "\n"}

Min(a, b) == IF a <= b THEN a ELSE b

Max(a, b) == IF a >= b THEN a ELSE b

\* s[a-1:b] for a string: the characters a..b that exist
Slice(s, a, b) == IF Max(a, 1) > Min(b, Len(s)) THEN "" ELSE SubSeq(s, Max(a, 1), Min(b, Len(s)))

Char(s, k) == Slice(s, k, k)

\* seq[:n] for a list
Take(s, n) == IF n <= 0 THEN <<>> ELSE SubSeq(s, 1, Min(n, Len(s)))

\* the characters of s, as a set
CharsOf(s) == {SubSeq(s, k, k) : k \in 1..Len(s)}

\* c in s, for a single character c
CharIn(c, s) == c \in CharsOf(s)

LowerTable ==
    [c \in CharsOf(UpperAlpha) |->
        SubSeq(LowerAlpha, CHOOSE k \in 1..Len(UpperAlpha) : SubSeq(UpperAlpha, k, k) = c,
                           CHOOSE k \in 1..Len(UpperAlpha) : SubSeq(UpperAlpha, k, k) = c)]

\* str.lower() of one character
LowerChar(c) == IF c \in DOMAIN LowerTable THEN LowerTable[c] ELSE c

RECURSIVE Lower(_)
\* str.lower()
Lower(s) == IF s = "" THEN "" ELSE LowerChar(Char(s, 1)) \o Lower(Tail(s))

RECURSIVE LStrip(_)
LStrip(s) == IF s # "" /\ Char(s, 1) \in Whitespace THEN LStrip(Tail(s)) ELSE s

RECURSIVE RStrip(_)
RStrip(s) ==
    IF s # "" /\ Char(s, Len(s)) \in Whitespace THEN RStrip(Slice(s, 1, Len(s) - 1)) ELSE s

\* str.strip()
Strip(s) == LStrip(RStrip(s))

\* w in t (substring test)
Contains(t, w) == \E k \in 1..(Len(t) - Len(w) + 1) : Slice(t, k, k + Len(w) - 1) = w

WordChars == CharsOf(UpperAlpha \o LowerAlpha \o DigitsUnderscore)

\* regex \w on one character
IsWordChar(c) == c \in WordChars

\* regex \b between t[p] and t[p+1] (p = 0 is the start, p = Len(t) the end)
WordBoundary(t, p) ==
    LET before == p >= 1 /\ IsWordChar(Char(t, p))
        after  == p < Len(t) /\ IsWordChar(Char(t, p + 1))
    IN  before # after

\* re.search(r'\b' + re.escape(a) + r'\b', t)
WordSearch(a, t) ==
    \E k \in 1..(Len(t) - Len(a) + 1) :
        /\ Slice(t, k, k + Len(a) - 1) = a
        /\ WordBoundary(t, k - 1)
        /\ WordBoundary(t, k + Len(a) - 1)


-----------------------------------------------------------------------------
(* difflib.SequenceMatcher(None, a, b).ratio(), no junk (autojunk needs len(b) >= 200) *)

RECURSIVE RunLen(_, _, _, _)
\* the length of the longest common block of a and b that starts at a[p], b[q]
RunLen(a, b, p, q) ==
    IF p > Len(a) \/ q > Len(b) THEN 0
    ELSE IF SubSeq(a, p, p) # SubSeq(b, q, q) THEN 0
    ELSE 1 + RunLen(a, b, p + 1, q + 1)

\* find_longest_match: the longest common block, earliest in a, then earliest in b
find_longest_match(a, b) ==
    LET run == [p \in 1..Len(a), q \in 1..Len(b) |-> RunLen(a, b, p, q)]
        best(p, q) == \A r \in 1..Len(a), t \in 1..Len(b) :
                         \/ run[r, t] < run[p, q]
                         \/ run[r, t] = run[p, q] /\ (p < r \/ (p = r /\ q <= t))
        at == CHOOSE pq \in (1..Len(a)) \X (1..Len(b)) : best(pq[1], pq[2])
    IN  [i |-> at[1], j |-> at[2], size |-> run[at[1], at[2]]]

RECURSIVE MatchedChars(_, _)
\* get_matching_blocks: the sum of the sizes of the matching blocks
MatchedChars(a, b) ==
    IF a = "" \/ b = "" THEN 0
    ELSE LET m == find_longest_match(a, b)
         IN  IF m.size = 0 THEN 0
             ELSE m.size
                  + MatchedChars(Slice(a, 1, m.i - 1), Slice(b, 1, m.j - 1))
                  + MatchedChars(Slice(a, m.i + m.size, Len(a)), Slice(b, m.j + m.size, Len(b)))

\* ratio() >= 0.78, ratio = 2.0 * matches / (len(a) + len(b)), and 1.0 when both are empty
RatioAtLeast78(a, b) ==
    IF Len(a) + Len(b) = 0 THEN TRUE
    ELSE 200 * MatchedChars(a, b) >= 78 * (Len(a) + Len(b))

-----------------------------------------------------------------------------
(* is_relevant_to_aliases *)

adverse == <<"fraud", "sanction", "arrest", "investigation", "scam", "money laundering",
             "charged", "lawsuit", "fine", "convicted", "corruption">>

\* the combined text of line 266
CombinedText(title, summary) == Lower(title \o " " \o summary)

is_relevant_to_aliases(als, title, summary) ==
    LET txt == CombinedText(title, summary)
        low == Lower(title)
    IN  IF \E k \in 1..Len(als) : WordSearch(Lower(als[k]), txt)
        THEN TRUE
        ELSE IF \E k \in 1..Len(als) : RatioAtLeast78(Lower(als[k]), low)
        THEN TRUE
        ELSE IF \E k \in 1..Len(adverse) : Contains(txt, adverse[k])
        THEN TRUE
        ELSE FALSE

-----------------------------------------------------------------------------
(* risk_level_from_text *)

high == <<"fraud", "money laundering", "scam", "crime", "corruption", "sanction", "arrest",
          "convicted", "charged">>

medium == <<"investigation", "probe", "regulatory", "lawsuit", "review">>

\* the number of places of t where w occurs
Occurrences(t, w) == Cardinality({p \in 1..Len(t) : Slice(t, p, p + Len(w) - 1) = w})

RECURSIVE ScoreLoopPerOccurrence(_, _, _, _)
\* a scoring loop that adds the weight once for every occurrence of a keyword
ScoreLoopPerOccurrence(t, words, weight, score) ==
    IF words = <<>> THEN score
    ELSE ScoreLoopPerOccurrence(t, Tail(words), weight,
                                score + weight * Occurrences(t, Head(words)))

RECURSIVE ScoreLoop(_, _, _, _)
\* for w in words: if w in t: score += weight
ScoreLoop(t, words, weight, score) ==
    IF words = <<>> THEN score
    ELSE ScoreLoop(t, Tail(words), weight,
                   IF Contains(t, Head(words)) THEN score + weight ELSE score)

risk_level_from_text(txt) ==
    LET t == Lower(txt)
        score == ScoreLoop(t, medium, 1, ScoreLoop(t, high, 2, 0))
    IN  IF score >= 2 THEN "High"
        ELSE IF score = 1 THEN "Medium"
        ELSE "Low"

-----------------------------------------------------------------------------
(* build_query_variations and the query bank *)

suffixes == <<"", " plc", " ltd", " llc", " inc", " corp", " group", " holdings">>

keywords == <<"fraud", "scam", "sanction", "arrest", "investigation", "money laundering",
              "charged", "convicted", "lawsuit", "fine", "corruption">>

\* list(dict.fromkeys(seq)): first occurrences, in order
Dedupe(seq) ==
    LET first(k) == \A m \in 1..(k - 1) : seq[m] # seq[k]
        kept == SelectSeq([k \in 1..Len(seq) |-> k], first)
    IN  [n \in 1..Len(kept) |-> seq[kept[n]]]

RECURSIVE KeywordQueries(_, _)
\* the inner loop of lines 288-290, from keyword k on
KeywordQueries(base, k) ==
    IF k > Len(keywords) THEN <<>>
    ELSE <<base \o " " \o keywords[k], keywords[k] \o " " \o base>> \o KeywordQueries(base, k + 1)

RECURSIVE SuffixQueries(_, _)
\* the outer loop of lines 285-290, from suffix s on
SuffixQueries(alias, s) ==
    IF s > Len(suffixes) THEN <<>>
    ELSE LET base == Strip(alias \o suffixes[s])
         IN  <<base>> \o KeywordQueries(base, 1) \o SuffixQueries(alias, s + 1)

\* the variations without the keyword queries of lines 288-290: one query per suffix
build_query_variations_bases_only(alias) ==
    Dedupe(SelectSeq([k \in 1..Len(suffixes) |-> Strip(Strip(alias) \o suffixes[k])],
                     LAMBDA q : q # ""))

build_query_variations(alias) ==
    Dedupe(SelectSeq(SuffixQueries(Strip(alias), 1), LAMBDA q : q # ""))

RECURSIVE ExtendAll(_, _)
\* lines 323-325: query_bank.extend(build_query_variations(a)) for a in aliases, from k on
ExtendAll(als, k) ==
    IF k > Len(als) THEN <<>> ELSE build_query_variations(als[k]) \o ExtendAll(als, k + 1)

BuildQueryBank(als) == Dedupe(ExtendAll(als, 1))

-----------------------------------------------------------------------------
(* link normalization and hostname *)

RECURSIVE RStripSlash(_)
\* str.rstrip('/')
RStripSlash(s) ==
    IF s # "" /\ Char(s, Len(s)) = "/" THEN RStripSlash(Slice(s, 1, Len(s) - 1)) ELSE s

\* index of the first character of s that is in set cs, Len(s) + 1 when there is none
FirstOf(s, cs) ==
    IF \E k \in 1..Len(s) : Char(s, k) \in cs
    THEN CHOOSE k \in 1..Len(s) : Char(s, k) \in cs /\ \A m \in 1..(k - 1) : Char(s, m) \notin cs
    ELSE Len(s) + 1

\* a normalization that forgets the trailing '/'
NormalizedKeyQueryOnly(link) == Slice(link, 1, FirstOf(link, {"?"}) - 1)

\* line 339: re.sub(r'\?.*$', '', link).rstrip('/')  (links hold no line break)
NormalizedKey(link) == RStripSlash(Slice(link, 1, FirstOf(link, {"?"}) - 1))

SchemeChars == "abcdefghijklmnopqrstuvwxyzABCDEFGHIJKLMNOPQRSTUVWXYZ0123456789+-."

\* urllib.parse.urlparse(link).hostname or "" (no user info, port or IPv6 bracket handling
\* beyond the split: the netloc after the last '@', up to the first ':', lower-cased)
Hostname(link) ==
    LET colon   == FirstOf(link, {":"})
        scheme  == Slice(link, 1, colon - 1)
        hasSch  == /\ colon <= Len(link) /\ colon > 1
                   /\ CharIn(Char(link, 1), UpperAlpha \o LowerAlpha)
                   /\ \A k \in 1..Len(scheme) : CharIn(Char(scheme, k), SchemeChars)
        rest    == IF hasSch THEN Slice(link, colon + 1, Len(link)) ELSE link
        hasNet  == Slice(rest, 1, 2) = "//"
        afterSl == Slice(rest, 3, Len(rest))
        netloc  == IF hasNet THEN Slice(afterSl, 1, FirstOf(afterSl, {"/", "?", "#"}) - 1) ELSE ""
        ats     == {k \in 1..Len(netloc) : Char(netloc, k) = "@"}
        lastAt  == IF ats = {} THEN 0 ELSE CHOOSE k \in ats : \A m \in ats : m <= k
        hostport == Slice(netloc, lastAt + 1, Len(netloc))
    IN  Lower(Slice(hostport, 1, FirstOf(hostport, {":"}) - 1))

-----------------------------------------------------------------------------
(* JSON values as the connectors and add_hits read them *)

Str(s) == [t |-> "str", v |-> s]

Null == [t |-> "null", v |-> ""]

Num == [t |-> "num", v |-> ""]

\* the key is not in the dict: dict.get returns its default
Absent == [t |-> "absent", v |-> ""]

\* d.get(key): None when the key is absent
Get(x) == IF x.t = "absent" THEN Null ELSE x

\* d.get(key, default)
GetOr(x, default) == IF x.t = "absent" THEN default ELSE x

\* bool(x)
Truthy(x) == x.t = "num" \/ (x.t = "str" /\ x.v # "")

\* x or y
Or(x, y) == IF Truthy(x) THEN x ELSE y

\* the prefix of items a "for it in items: it.get(...)" loop handles before the first
\* item that is no dict (AttributeError); all of items when every item is a dict
DictPrefix(items) ==
    LET bad == {k \in 1..Len(items) : ~items[k].dict}
    IN  IF bad = {} THEN items
        ELSE Take(items, (CHOOSE k \in bad : \A m \in bad : k <= m) - 1)

-----------------------------------------------------------------------------
(* connectors: each maps one HTTP response to [hits, failed, raised] *)

newsdata_fetch(resp, max_results) ==
    IF Strip(NEWSDATA_KEY) = "" THEN [hits |-> <<>>, failed |-> TRUE, raised |-> FALSE]
    ELSE IF resp.status # "ok" THEN [hits |-> <<>>, failed |-> TRUE, raised |-> FALSE]
    ELSE LET items == Take(resp.results, max_results)
             done  == DictPrefix(items)
         IN  [hits |-> [k \in 1..Len(done) |->
                           [source  |-> "NewsData",
                            title   |-> Get(done[k].title),
                            summary |-> Or(Get(done[k].description), GetOr(done[k].content, Str(""))),
                            link    |-> Get(done[k].link)]],
              failed |-> Len(done) < Len(items),
              raised |-> FALSE]

\* lines 213-222: dedup by link|title, drop hits without link, stop at max_results;
\* the string concatenation of line 216 raises TypeError on a link or title that is
\* truthy and no string
RECURSIVE DdgDedup(_, _, _, _, _)
DdgDedup(out, k, seen, dedup, max_results) ==
    IF k > Len(out) THEN [hits |-> dedup, raised |-> FALSE]
    ELSE LET l == Or(out[k].link, Str(""))
             t == Or(out[k].title, Str(""))
         IN  IF l.t # "str" \/ t.t # "str" THEN [hits |-> dedup, raised |-> TRUE]
             ELSE LET key  == l.v \o "|" \o t.v
                      take == key \notin seen /\ Truthy(out[k].link)
                      d2   == IF take THEN Append(dedup, out[k]) ELSE dedup
                      s2   == IF take THEN seen \cup {key} ELSE seen
                  IN  IF Len(d2) >= max_results THEN [hits |-> d2, raised |-> FALSE]
                      ELSE DdgDedup(out, k + 1, s2, d2, max_results)

ddg_instant_search(query, resp, max_results) ==
    LET abstract == IF resp.status = "ok" /\ Truthy(Get(resp.AbstractText))
                    THEN << [source |-> "DuckDuckGo", title |-> GetOr(resp.Heading, Str(query)),
                             summary |-> Get(resp.AbstractText),
                             link |-> GetOr(resp.AbstractURL, Str(""))] >>
                    ELSE <<>>
        items    == IF resp.status = "ok" THEN Take(resp.Results, max_results) ELSE <<>>
        done     == DictPrefix(items)
        fromRes  == [k \in 1..Len(done) |->
                        [source |-> "DuckDuckGo", title |-> Get(done[k].Text),
                         summary |-> Str(""), link |-> Get(done[k].FirstURL)]]
        broke    == Len(done) < Len(items)
        topics   == IF resp.status = "ok" /\ ~broke
                    THEN SelectSeq(Take(resp.RelatedTopics, max_results),
                                   LAMBDA tp : /\ tp.dict
                                               /\ Truthy(Or(Get(tp.Text), Get(tp.Name)))
                                               /\ Truthy(Get(tp.FirstURL)))
                    ELSE <<>>
        fromTop  == [k \in 1..Len(topics) |->
                        [source |-> "DuckDuckGo", title |-> Or(Get(topics[k].Text), Get(topics[k].Name)),
                         summary |-> Str(""), link |-> Get(topics[k].FirstURL)]]
        dd       == DdgDedup(abstract \o fromRes \o fromTop, 1, {}, <<>>, max_results)
    IN  [hits |-> dd.hits, failed |-> resp.status # "ok" \/ broke, raised |-> dd.raised]

bing_search(resp, max_results) ==
    IF resp.status # "ok" THEN [hits |-> <<>>, failed |-> TRUE, raised |-> FALSE]
    ELSE LET blocks == SelectSeq(Take(resp.blocks, max_results), LAMBDA b : b.link # "")
         IN  [hits |-> [k \in 1..Len(blocks) |->
                           [source |-> "Bing", title |-> Str(blocks[k].title),
                            summary |-> Str(blocks[k].snippet), link |-> Str(blocks[k].link)]],
              failed |-> FALSE, raised |-> FALSE]

-----------------------------------------------------------------------------
(* smart_fetch_entity.add_hits *)

\* a loop over a batch without the check of line 345
BatchCutNever(res, cap) == FALSE

\* line 345: len(results) >= max_total, checked inside the loop over a batch
BatchCut(res, cap) == Len(res) >= cap

RECURSIVE add_hits_from(_, _, _, _, _, _, _, _)
\* the loop of lines 333-346 from hit k on; lg records what happened to each hit reached
add_hits_from(source_name, hits, k, als, cap, res, seen, lg) ==
    IF k > Len(hits) THEN [results |-> res, seen_links |-> seen, log |-> lg, raised |-> FALSE]
    ELSE LET t == Or(hits[k].title, Str(""))
             s == Or(hits[k].summary, Str(""))
             l == Or(hits[k].link, Str(""))
         IN  IF t.t # "str" \/ s.t # "str" \/ l.t # "str"
             THEN [results |-> res, seen_links |-> seen, log |-> lg, raised |-> TRUE]
             ELSE LET title   == Strip(t.v)
                      summary == Strip(s.v)
                      link    == Strip(l.v)
                      key     == NormalizedKey(link)
                  IN  IF link = ""
                      THEN add_hits_from(source_name, hits, k + 1, als, cap, res, seen,
                                         Append(lg, "nolink"))
                      ELSE IF key \in seen
                      THEN add_hits_from(source_name, hits, k + 1, als, cap, res, seen,
                                         Append(lg, "dup"))
                      ELSE LET rel  == is_relevant_to_aliases(als, title, summary)
                               res2 == IF rel
                                       THEN Append(res, [source |-> source_name, title |-> title,
                                                         summary |-> summary, link |-> link])
                                       ELSE res
                               seen2 == IF rel THEN seen \cup {key} ELSE seen
                               lg2  == Append(lg, IF rel THEN "kept" ELSE "dropped")
                           IN  IF BatchCut(res2, cap)
                               THEN [results |-> res2, seen_links |-> seen2, log |-> lg2,
                                     raised |-> FALSE]
                               ELSE add_hits_from(source_name, hits, k + 1, als, cap, res2,
                                                  seen2, lg2)

add_hits(source_name, hits) ==
    add_hits_from(source_name, hits, 1, aliases, max_total, results, seen_links, <<>>)

-----------------------------------------------------------------------------
(* domain priority re-sort, lines 371-381 *)

\* the score of line 377 without its minus sign
domain_score_unsigned(item, priority) ==
    LET hostname == Hostname(item.link)
        hit == {k \in 1..Len(priority) : Contains(hostname, priority[k])}
    IN  IF hit = {} THEN 0
        ELSE Len(priority) - ((CHOOSE k \in hit : \A m \in hit : k <= m) - 1)

domain_score(item, priority) ==
    LET hostname == Hostname(item.link)
        hit == {k \in 1..Len(priority) : Contains(hostname, priority[k])}
    IN  IF hit = {} THEN 0
        ELSE -(Len(priority) - ((CHOOSE k \in hit : \A m \in hit : k <= m) - 1))

RECURSIVE StableInsert(_, _, _)
\* sorted is ordered by score; x goes after every element whose score is <= its own
StableInsert(sorted, x, priority) ==
    IF sorted = <<>> THEN <<x>>
    ELSE IF domain_score(Head(sorted), priority) <= domain_score(x, priority)
    THEN <<Head(sorted)>> \o StableInsert(Tail(sorted), x, priority)
    ELSE <<x>> \o sorted

RECURSIVE SortFrom(_, _, _, _)
\* list.sort(key=domain_score): a stable sort, ascending
SortFrom(seq, k, sorted, priority) ==
    IF k > Len(seq) THEN sorted
    ELSE SortFrom(seq, k + 1, StableInsert(sorted, seq[k], priority), priority)

SortByDomain(seq, priority) == SortFrom(seq, 1, <<>>, priority)

-----------------------------------------------------------------------------
(* alias resolution, lines 298-319 *)

\* alias_overrides.get(key, [])
OverrideList(overrides, k) == overrides[k][2]

\* lines 299-308: exact key first, else the first key equal ignoring case
RawAliases(name, overrides) ==
    LET exact == {k \in 1..Len(overrides) : overrides[k][1] = name}
        ci    == {k \in 1..Len(overrides) : Lower(overrides[k][1]) = Lower(name)}
    IN  IF exact # {} THEN <<name>> \o OverrideList(overrides, CHOOSE k \in exact : TRUE)
        ELSE IF ci # {}
        THEN <<name>> \o OverrideList(overrides, CHOOSE k \in ci : \A m \in ci : k <= m)
        ELSE <<name>>

RECURSIVE AppendNew(_, _, _)
\* lines 313-315: for w in wiki_aliases: if w not in raw_aliases: raw_aliases.append(w)
AppendNew(raw, ws, k) ==
    IF k > Len(ws) THEN raw
    ELSE AppendNew(IF \E m \in 1..Len(raw) : raw[m] = ws[k] THEN raw ELSE Append(raw, ws[k]),
                   ws, k + 1)

\* get_wikipedia_aliases: list(aliases)[:max_aliases] of the set {name.strip()} plus the
\* names found, in any order (a Python set has no order); found = {} when the lookup fails
WikiLists(name, found, max_aliases) ==
    LET S == {Strip(name)} \cup found
        n == Min(max_aliases, Cardinality(S))
    IN  {f \in [1..n -> S] : \A a, b \in 1..n : a # b => f[a] # f[b]}

-----------------------------------------------------------------------------
(* the inputs of a scan *)

MaxTotalBound == 2

\* the values of per_source_limit: one hit per call, or every hit of a response
PerSourceLimits == {1, 3}

WikiMaxAliases == 6

NewsQueries == 12

DdgAliases == 4

BingQueries == 24

EntityNames == {"", "Acme"}

\* alias_overrides.json: no entry; a key that equals the name ignoring case, before one
\* that equals it exactly only in another case; a key that equals the name exactly, after
\* one that equals it ignoring case
OverrideMaps ==
    { <<>>,
      << <<"ACME", <<"Acme", "AC", "AC">>>>, <<"acme", <<"Acme Ltd">>>> >>,
      << <<"acme", <<"Acme Inc">>>>, <<"Acme", <<"A.C.", "Acme Ltd">>>> >> }

\* the names a Wikipedia lookup adds to the entity name
WikiFound == { {"Acme Corp"} }

NewsKeys == {"", " ", "k"}

PriorityLists ==
    { [given |-> FALSE, list |-> <<>>],
      [given |-> TRUE, list |-> <<>>],
      [given |-> TRUE, list |-> <<"a.com", "b.com">>] }

NewsItem(title, description, content, link) ==
    [dict |-> TRUE, title |-> title, description |-> description, content |-> content,
     link |-> link]

NotADict == [dict |-> FALSE]

NewsResponses ==
    { [status |-> "exception", results |-> <<>>],
      [status |-> "http_error", results |-> <<>>],
      [status |-> "ok", results |->
          << NewsItem(Str("Acme fraud"), Str(""), Absent, Str("http://x.com/a?utm=1")),
             NewsItem(Str("acme wins"), Null, Str(""), Str("http://x.com/a/")),
             NewsItem(Str("Bob lawsuit"), Null, Absent, Str("http://b.com/c")) >>],
      [status |-> "ok", results |->
          << NewsItem(Str("Weather"), Str("rain"), Absent, Str("http://c.com/d")),
             NewsItem(Str("Acme"), Str(""), Absent, Null),
             NewsItem(Str(" Acmes "), Str(""), Absent, Str(" http://a.com/e ")) >>],
      [status |-> "ok", results |->
          << NewsItem(Str("Bob lawsuit"), Null, Absent, Str("http://b.com/c")),
             NotADict >>],
      [status |-> "ok", results |->
          << NewsItem(Num, Str(""), Absent, Str("http://c.com/h")) >>] }

DdgItem(txt, name, url) == [dict |-> TRUE, Text |-> txt, Name |-> name, FirstURL |-> url]

DdgResponses ==
    { [status |-> "exception", AbstractText |-> Absent, Heading |-> Absent,
       AbstractURL |-> Absent, Results |-> <<>>, RelatedTopics |-> <<>>],
      [status |-> "ok", AbstractText |-> Str("maker"), Heading |-> Str("Acmes"),
       AbstractURL |-> Str("http://a.com/e"),
       Results |-> << DdgItem(Str("Acme fraud"), Absent, Str("http://x.com/a?utm=1")) >>,
       RelatedTopics |-> << DdgItem(Null, Str("acme wins"), Str("http://x.com/a/")),
                            NotADict,
                            DdgItem(Str("Weather"), Absent, Str("http://c.com/d")) >>],
      [status |-> "ok", AbstractText |-> Str(""), Heading |-> Absent, AbstractURL |-> Absent,
       Results |-> << DdgItem(Str("Bob lawsuit"), Absent, Str("http://b.com/c")),
                      NotADict >>,
       RelatedTopics |-> << DdgItem(Str("Acme fraud"), Absent, Str("http://x.com/a?utm=1")) >>],
      [status |-> "ok", AbstractText |-> Absent, Heading |-> Absent, AbstractURL |-> Absent,
       Results |-> << DdgItem(Str("Acme"), Absent, Num) >>, RelatedTopics |-> <<>>] }

BingBlock(title, link, snippet) == [title |-> title, link |-> link, snippet |-> snippet]

BingResponses ==
    { [status |-> "exception", blocks |-> <<>>],
      [status |-> "ok", blocks |->
          << BingBlock("acme wins", "http://x.com/a/", ""),
             BingBlock("Acme scam", "", ""),
             BingBlock("A.C. wins", "http://c.com/d", "rain") >>],
      [status |-> "ok", blocks |->
          << BingBlock("Refinery", "http://b.com/r", ""),
             BingBlock("Acmes", "http://a.com/e", "") >>] }

-----------------------------------------------------------------------------
(* smart_fetch_entity as a state machine: one step per connector call *)

\* the number of iterations a connector's for loop has at most
LoopLen(phase, news, als, bank) ==
    CASE phase = "news" -> IF news /\ NEWSDATA_KEY # "" THEN Min(NewsQueries, Len(bank)) ELSE 0
      [] phase = "ddg"  -> Min(DdgAliases, Len(als))
      [] phase = "bing" -> Min(BingQueries, Len(bank))
      [] OTHER -> 1

\* the scrape connector ahead of the instant-answer connector
FollowingScrapeFirst(phase) ==
    CASE phase = "news" -> "bing"
      [] phase = "bing" -> "ddg"
      [] OTHER -> "sort"

Following(phase) ==
    CASE phase = "news" -> "ddg"
      [] phase = "ddg"  -> "bing"
      [] OTHER -> "sort"

RECURSIVE Enter(_, _, _, _)
\* the first loop from phase on that has an iteration to run
Enter(phase, news, als, bank) ==
    IF phase = "sort" \/ LoopLen(phase, news, als, bank) > 0 THEN phase
    ELSE Enter(Following(phase), news, als, bank)

\* the query string a connector call was made with
QueryOf(c) ==
    IF c.conn = "ddg" THEN aliases[c.idx] \o " sanctions OR fraud OR investigation"
    ELSE query_bank[c.idx]

\* the state before a scan, for the override mappings and the keys given
InitWith(maps, keys) ==
    /\ alias_overrides \in maps
    /\ NEWSDATA_KEY \in keys
    /\ entity_name = ""
    /\ use_newsdata = FALSE
    /\ use_aliasing = FALSE
    /\ per_source_limit = 1
    /\ max_total = 1
    /\ domain_priority_list = [given |-> FALSE, list |-> <<>>]
    /\ aliases = <<>>
    /\ query_bank = <<>>
    /\ results = <<>>
    /\ seen_links = {}
    /\ pc = "idle"
    /\ idx = 0
    /\ calls = <<>>
    /\ batch = <<>>
    /\ log = <<>>
    /\ failed = FALSE
    /\ prev = <<>>
    /\ text = ""
    /\ level = "none"

Init == InitWith(OverrideMaps, NewsKeys)

\* the call smart_fetch_entity(...) and lines 295-330: the empty-name return, the aliases,
\* the query bank
StartWith(names, limits, caps) ==
    /\ pc = "idle"
    /\ \E name \in names, news \in BOOLEAN, aliasing \in BOOLEAN,
          limit \in limits, cap \in caps :
         /\ entity_name' = name
         /\ use_newsdata' = news
         /\ use_aliasing' = aliasing
         /\ per_source_limit' = limit
         /\ max_total' = cap
         /\ IF name = ""
            THEN /\ pc' = "done"
                 /\ UNCHANGED <<aliases, query_bank>>
            ELSE \E found \in WikiFound :
                 \E wiki \in IF aliasing THEN WikiLists(name, found, WikiMaxAliases)
                             ELSE {<<>>} :
                   LET als == AppendNew(RawAliases(name, alias_overrides), wiki, 1)
                       bank == BuildQueryBank(als)
                   IN  /\ aliases' = als
                       /\ query_bank' = bank
                       /\ pc' = Enter("news", news, als, bank)
    /\ idx' = 1
    /\ UNCHANGED <<alias_overrides, NEWSDATA_KEY, domain_priority_list, results, seen_links,
                   calls, batch, log, failed, prev, text, level>>

Start == StartWith(EntityNames, PerSourceLimits, 1..MaxTotalBound)

\* one iteration of a connector loop: the fetch (fetched), add_hits, the check of
\* len(results) >= max_total, and the move to the next query or the next connector
Iterate(conn, source_name, fetched) ==
    \E added \in {IF fetched.raised
                   THEN [results |-> results, seen_links |-> seen_links, log |-> <<>>,
                         raised |-> TRUE]
                   ELSE add_hits(source_name, fetched.hits)} :
        /\ calls' = Append(calls, [conn |-> conn, idx |-> idx])
        /\ batch' = fetched.hits
        /\ failed' = fetched.failed
        /\ prev' = results
        /\ log' = added.log
        /\ results' = added.results
        /\ seen_links' = added.seen_links
        /\ IF added.raised
           THEN pc' = "raised" /\ idx' = idx
           ELSE IF \/ Len(added.results) >= max_total
                   \/ idx >= LoopLen(conn, use_newsdata, aliases, query_bank)
           THEN pc' = Enter(Following(conn), use_newsdata, aliases, query_bank) /\ idx' = 1
           ELSE pc' = pc /\ idx' = idx + 1
        /\ UNCHANGED <<entity_name, alias_overrides, use_newsdata, NEWSDATA_KEY, use_aliasing,
                       per_source_limit, max_total, domain_priority_list, aliases, query_bank,
                       text, level>>

\* lines 350-354
NewsCallOf(resps) ==
    /\ pc = "news"
    /\ \E resp \in resps : Iterate("news", "NewsData", newsdata_fetch(resp, per_source_limit))

NewsCall == NewsCallOf(NewsResponses)

\* lines 357-361
DdgCallOf(resps) ==
    /\ pc = "ddg"
    /\ \E resp \in resps :
         Iterate("ddg", "DuckDuckGo", ddg_instant_search(aliases[idx] \o " sanctions OR fraud OR investigation",
                                  resp, per_source_limit))

DdgCall == DdgCallOf(DdgResponses)

\* lines 364-368
BingCallOf(resps) ==
    /\ pc = "bing"
    /\ \E resp \in resps : Iterate("bing", "Bing", bing_search(resp, per_source_limit))

BingCall == BingCallOf(BingResponses)

\* lines 371-384; the argument domain_priority_list is first read here, and drawn here;
\* the local hits of the last connector call ends with the function
SortAndReturn ==
    /\ pc = "sort"
    /\ \E priority \in PriorityLists :
         /\ domain_priority_list' = priority
         /\ results' = IF priority.given /\ priority.list # <<>>
                       THEN SortByDomain(results, priority.list)
                       ELSE results
    /\ prev' = results
    /\ pc' = "done"
    /\ batch' = <<>>
    /\ log' = <<>>
    /\ failed' = FALSE
    /\ UNCHANGED <<entity_name, alias_overrides, use_newsdata, NEWSDATA_KEY, use_aliasing,
                   per_source_limit, max_total, aliases, query_bank,
                   seen_links, idx, calls, text, level>>

Next == Start \/ NewsCall \/ DdgCall \/ BingCall \/ SortAndReturn

Spec == Init /\ [][Next]_vars

-----------------------------------------------------------------------------
(* risk_level_from_text on its own: a text is drawn, then scored *)

MaxWords == 2

\* words a text is made of: high and medium keywords, a capitalised one, words that only
\* hold part of a keyword, and words that hold none
RiskWords == {"fraud", "Scam", "money laundering", "arrests", "probe", "review", "regulatory",
              "Lawsuit", "money", "profit"}

RECURSIVE TextsOf(_)
\* the texts of at most n words, joined by single spaces
TextsOf(n) ==
    IF n = 0 THEN {""}
    ELSE LET shorter == TextsOf(n - 1)
         IN  shorter \cup {IF t = "" THEN w ELSE t \o " " \o w : t \in shorter, w \in RiskWords}

InitRisk ==
    /\ text \in TextsOf(MaxWords)
    /\ level = "none"
    /\ pc = "risk"
    /\ alias_overrides = <<>>
    /\ NEWSDATA_KEY = ""
    /\ entity_name = ""
    /\ use_newsdata = FALSE
    /\ use_aliasing = FALSE
    /\ per_source_limit = 1
    /\ max_total = 1
    /\ domain_priority_list = [given |-> FALSE, list |-> <<>>]
    /\ aliases = <<>>
    /\ query_bank = <<>>
    /\ results = <<>>
    /\ seen_links = {}
    /\ idx = 0
    /\ calls = <<>>
    /\ batch = <<>>
    /\ log = <<>>
    /\ failed = FALSE
    /\ prev = <<>>

\* the call risk_level_from_text(text), lines 123-138
RiskLevel ==
    /\ pc = "risk"
    /\ level = "none"
    /\ level' = risk_level_from_text(text)
    /\ UNCHANGED <<text, scanVars>>

NextRisk == RiskLevel

SpecRisk == InitRisk /\ [][NextRisk]_vars

-----------------------------------------------------------------------------
(* scans in which every connector call fails, over more entity names and alias lists: *)
(* the aliases, the query bank and the queries the three loops send                   *)

\* entity names: a plain one, blanks only, adverse keywords, one that ends in a suffix
BankNames == {"Acme", " ", "fraud", "fine", "Acme plc"}

BankOverrideMaps ==
    { <<>>,
      << <<"acme", <<"Acme fraud", "AC">>>>, <<"FRAUD", <<"scam", "fraud plc", "x">>>> >>,
      << <<"Fine", <<"fine fine">>>>, <<"acme PLC", <<"Acme", "plc", "B", "C">>>> >> }

\* the responses of a connector that stand for a failed call
Failed(resps) == {r \in resps : r.status # "ok"}

InitBank == InitWith(BankOverrideMaps, {"k"})

StartBank == StartWith(BankNames, {1}, {1})

NextBank ==
    \/ StartBank
    \/ NewsCallOf(Failed(NewsResponses))
    \/ DdgCallOf(Failed(DdgResponses))
    \/ BingCallOf(Failed(BingResponses))
    \/ SortAndReturn

SpecBank == InitBank /\ [][NextBank]_vars

-----------------------------------------------------------------------------
(* what the claims speak of *)

\* a scan is under way or has ended (the arguments are bound)
Called == pc # "idle"

\* a connector call is the last thing that happened
AfterCall == Len(calls) > 0 /\ pc \in {"news", "ddg", "bing", "sort"}

NoDuplicates(seq) == \A a, b \in 1..Len(seq) : a # b => seq[a] # seq[b]

IsPrefix(p, q) == Len(p) <= Len(q) /\ \A k \in 1..Len(p) : p[k] = q[k]

\* the deduplication key as the data model words it: the link without its trailing
\* '?...' query string, then without its trailing '/' characters
LinkKey(link) ==
    LET q == {k \in 1..Len(link) : SubSeq(link, k, k) = "?"}
        n == IF q = {} THEN Len(link) ELSE (CHOOSE k \in q : \A m \in q : k <= m) - 1
        slashes(k) == \A m \in (k + 1)..n : SubSeq(link, m, m) = "/"
        e == CHOOSE k \in 0..n :
                 /\ slashes(k)
                 /\ k >= 1 => SubSeq(link, k, k) # "/"
    IN  IF e = 0 THEN "" ELSE SubSeq(link, 1, e)

\* the title, summary and link add_hits works with for hit h of a batch
HitTitle(h) == Strip(Or(h.title, Str("")).v)

HitSummary(h) == Strip(Or(h.summary, Str("")).v)

HitLink(h) == Strip(Or(h.link, Str("")).v)

\* the positions of batch that add_hits appended to results
KeptAt == {j \in 1..Len(log) : log[j] = "kept"}

\* how many of the first j hits of batch were appended
KeptUpTo(j) == Cardinality({m \in KeptAt : m <= j})

-----------------------------------------------------------------------------
\* C1: no two results share a normalized link key; each batch only appends, in order, the
\* hits it kept; a kept hit is new (its key is neither in the results before the batch nor
\* kept earlier in the batch), and a hit skipped as a duplicate has a key already kept
C1_DedupFirstWins ==
    \E keys \in {[k \in 1..Len(results) |-> LinkKey(results[k].link)]} :
    \E hitKeys \in {[j \in 1..Len(log) |-> LinkKey(HitLink(batch[j]))]} :
        /\ NoDuplicates(keys)
        /\ AfterCall =>
             /\ IsPrefix(prev, results)
             /\ Len(results) = Len(prev) + Cardinality(KeptAt)
             /\ \A j \in KeptAt :
                  /\ results[Len(prev) + KeptUpTo(j)].link = HitLink(batch[j])
                  /\ results[Len(prev) + KeptUpTo(j)].title = HitTitle(batch[j])
                  /\ \A k \in 1..Len(prev) : keys[k] # hitKeys[j]
                  /\ \A m \in KeptAt : m < j => hitKeys[m] # hitKeys[j]
             /\ \A j \in 1..Len(log) :
                  log[j] = "dup" =>
                    \/ \E k \in 1..Len(prev) : keys[k] = hitKeys[j]
                    \/ \E m \in KeptAt : m < j /\ hitKeys[m] = hitKeys[j]

\* C1 witness: a hit was skipped because an earlier hit with another link but the same key
\* is in the results
C1_Witness ==
    /\ AfterCall
    /\ \E j \in 1..Len(log) :
         /\ log[j] = "dup"
         /\ \E k \in 1..Len(results) :
              /\ results[k].link # HitLink(batch[j])
              /\ LinkKey(results[k].link) = LinkKey(HitLink(batch[j]))

-----------------------------------------------------------------------------
\* C2: the result list never holds more than max_total entries
C2_CappedAtMaxTotal == Called => Len(results) <= max_total

-----------------------------------------------------------------------------
ConnRank(conn) == CASE conn = "news" -> 1 [] conn = "ddg" -> 2 [] OTHER -> 3

SourceRank(source) == CASE source = "NewsData" -> 1 [] source = "DuckDuckGo" -> 2 [] OTHER -> 3

\* the calls made to connector conn, in order
CallsTo(conn) == SelectSeq(calls, LAMBDA c : c.conn = conn)

\* C3: calls go news, then instant answer, then scrape; news only when enabled with a key;
\* the k-th call of a connector is for the k-th alias (at most 4) or the k-th query of the
\* bank (at most 24); before the re-sort the results are grouped in that source order
C3_PriorityOrder ==
    /\ \A a, b \in 1..Len(calls) : a < b => ConnRank(calls[a].conn) <= ConnRank(calls[b].conn)
    /\ ~(use_newsdata /\ NEWSDATA_KEY # "") => CallsTo("news") = <<>>
    /\ ~(use_newsdata /\ Strip(NEWSDATA_KEY) # "") =>
         \A k \in 1..Len(results) : results[k].source # "NewsData"
    /\ \A conn \in {"news", "ddg", "bing"} :
         \E made \in {CallsTo(conn)} : \A k \in 1..Len(made) : made[k].idx = k
    /\ Len(CallsTo("news")) <= Len(query_bank)
    /\ Len(CallsTo("ddg")) <= 4 /\ Len(CallsTo("ddg")) <= Len(aliases)
    /\ Len(CallsTo("bing")) <= 24 /\ Len(CallsTo("bing")) <= Len(query_bank)
    /\ pc # "done" =>
         \A a, b \in 1..Len(results) :
             a < b => SourceRank(results[a].source) <= SourceRank(results[b].source)

\* C3 witness: all three connectors were called and each has a result in the list
C3_Witness ==
    /\ pc = "sort"
    /\ \A conn \in {"news", "ddg", "bing"} : CallsTo(conn) # <<>>
    /\ \A src \in {"NewsData", "DuckDuckGo", "Bing"} :
         \E k \in 1..Len(results) : results[k].source = src

-----------------------------------------------------------------------------
\* the keys of alias_overrides equal to the entity name ignoring case
MatchingKeys == {k \in 1..Len(alias_overrides) : Lower(alias_overrides[k][1]) = Lower(entity_name)}

\* C4: for a name that matches an override key ignoring case, the alias list starts with
\* the name, goes on with the override aliases of a matching key in override order, each
\* once, and holds no string twice
C4_AliasesOrderedNoDuplicates ==
    (Called /\ entity_name # "" /\ MatchingKeys # {}) =>
        /\ aliases[1] = entity_name
        /\ \E k \in MatchingKeys :
               IsPrefix(Dedupe(<<entity_name>> \o alias_overrides[k][2]), aliases)
        /\ NoDuplicates(aliases)

-----------------------------------------------------------------------------
\* the n characters of txt from position p on are not part of a longer word: no letter,
\* digit or underscore stands right before or right after them
WholeWordAt(txt, p, n) ==
    /\ ~IsWordChar(Char(txt, p - 1))
    /\ ~IsWordChar(Char(txt, p + n))

\* rule 1: the alias stands as a whole word in the lower-cased title + " " + summary
Rule1(als, title, summary) ==
    \E txt \in {Lower(title \o " " \o summary)} :
      \E k \in 1..Len(als) :
        \E a \in {Lower(als[k])} :
          \E p \in 1..(Len(txt) - Len(a) + 1) :
            Slice(txt, p, p + Len(a) - 1) = a /\ WholeWordAt(txt, p, Len(a))

\* rule 2: the alias is similar enough to the lower-cased title
Rule2(als, title) ==
    \E low \in {Lower(title)} : \E k \in 1..Len(als) : RatioAtLeast78(Lower(als[k]), low)

\* rule 3: the combined text holds an adverse keyword
Rule3(title, summary) ==
    \E txt \in {Lower(title \o " " \o summary)} :
      \E w \in {adverse[k] : k \in 1..Len(adverse)} : Contains(txt, w)

Relevant(als, title, summary) ==
    Rule1(als, title, summary) \/ Rule3(title, summary) \/ Rule2(als, title)

\* C5: a hit that reaches the relevance filter is kept iff rule 1, 2 or 3 holds of it, and
\* every entry of the aggregated result list satisfies one of the rules
C5_KeptIffRelevant ==
    AfterCall =>
        /\ \A j \in 1..Len(log) :
             /\ log[j] = "kept" => Relevant(aliases, HitTitle(batch[j]), HitSummary(batch[j]))
             /\ log[j] = "dropped" => ~Relevant(aliases, HitTitle(batch[j]), HitSummary(batch[j]))
        /\ \A k \in 1..Len(results) : Relevant(aliases, results[k].title, results[k].summary)

-----------------------------------------------------------------------------
\* the scan has returned its list (prev holds the aggregated results before the re-sort)
Returned == pc = "done" /\ entity_name # ""

\* the rank of a result: the index of the first priority entry inside the hostname of its
\* link, or past the end of the list when no entry is
Rank(item, priority) ==
    LET hit == {k \in 1..Len(priority) : Contains(Hostname(item.link), priority[k])}
    IN  IF hit = {} THEN Len(priority) + 1 ELSE CHOOSE k \in hit : \A m \in hit : k <= m

\* where an entry of the result list (entries differ by their links) stood before the
\* re-sort; 0 for an entry that was not there
PlaceBefore(item) ==
    IF \E k \in 1..Len(prev) : prev[k] = item
    THEN CHOOSE k \in 1..Len(prev) : prev[k] = item
    ELSE 0

\* C6: with a non-empty priority list the returned list is the aggregated list reordered by
\* rank, equal ranks in aggregation order; with no list or an empty one it is unchanged
C6_StableDomainSort ==
    Returned =>
        IF domain_priority_list.given /\ domain_priority_list.list # <<>>
        THEN \E rank \in {[k \in 1..Len(results) |-> Rank(results[k], domain_priority_list.list)]} :
             \E place \in {[k \in 1..Len(results) |-> PlaceBefore(results[k])]} :
                /\ Len(results) = Len(prev)
                /\ \A k \in 1..Len(prev) : \E m \in 1..Len(results) : results[m] = prev[k]
                /\ \A a, b \in 1..Len(results) :
                       a < b => \/ rank[a] < rank[b]
                                \/ rank[a] = rank[b] /\ place[a] < place[b]
        ELSE results = prev

\* C6 witness: the re-sort moved a result, and two results of equal rank are in the list
C6_Witness ==
    /\ Returned
    /\ results # prev
    /\ \E a, b \in 1..Len(results) :
         /\ a < b
         /\ Rank(results[a], domain_priority_list.list) = Rank(results[b], domain_priority_list.list)

-----------------------------------------------------------------------------
\* C8: the scan never raises; a connector call that failed adds no hit and leaves the
\* result list as it was
C8_NoFailureIsFatal ==
    /\ pc # "raised"
    /\ (AfterCall /\ failed) => (batch = <<>> /\ results = prev)

-----------------------------------------------------------------------------
\* C9: no connector is called twice with the same query string in one scan
C9_NoQueryRepeated ==
    \A a, b \in 1..Len(calls) :
        (a # b /\ calls[a].conn = calls[b].conn) => QueryOf(calls[a]) # QueryOf(calls[b])

-----------------------------------------------------------------------------
\* C10 as stated: every hit of a batch is processed, whatever the length of the result list
C10_WholeBatchProcessed == AfterCall => Len(log) = Len(batch)

\* the length of the result list after hit j of the batch
LenAfter(j) == Len(prev) + KeptUpTo(j)

\* C10, amended: the cap is checked after every hit that reaches the relevance filter and
\* after every batch; the hits of a batch are processed in order while the list is below
\* max_total after each such hit, the rest of the batch is skipped once it is not, and a
\* list of max_total or more entries ends the queries to the current connector
C10_BatchCutAtCap ==
    AfterCall =>
        /\ Len(log) <= Len(batch)
        /\ \A j \in 1..(Len(log) - 1) :
               log[j] \in {"kept", "dropped"} => LenAfter(j) < max_total
        /\ Len(log) < Len(batch) =>
               /\ log # <<>>
               /\ log[Len(log)] \in {"kept", "dropped"}
               /\ Len(results) >= max_total
        /\ Len(results) >= max_total => pc # calls[Len(calls)].conn

\* C10 witness: a batch was cut before its last hit
C10_Witness ==
    /\ AfterCall
    /\ Len(log) < Len(batch)
    /\ Len(results) >= max_total

-----------------------------------------------------------------------------
\* the keywords of a list that occur in the lower-cased text
Present(words, txt) == {w \in {words[k] : k \in 1..Len(words)} : Contains(Lower(txt), w)}

\* 2 for every high keyword present, 1 for every medium keyword present
RiskScore(txt) == 2 * Cardinality(Present(high, txt)) + Cardinality(Present(medium, txt))

\* C7: the level is High iff the score is 2 or more, Medium iff it is 1, Low iff it is 0,
\* where every keyword present counts once
C7_RiskLevelByPresence ==
    level # "none" =>
        /\ level \in {"High", "Medium", "Low"}
        /\ level = "High" <=> RiskScore(text) >= 2
        /\ level = "Medium" <=> RiskScore(text) = 1
        /\ level = "Low" <=> RiskScore(text) = 0

\* C7 witness: one medium keyword occurring twice and no other keyword gave Medium
C7_Witness ==
    /\ level = "Medium"
    /\ Present(high, text) = {}
    /\ \E w \in Present(medium, text) : Occurrences(Lower(text), w) = 2

-----------------------------------------------------------------------------
\* the search phrases of an alias: the alias with each suffix
Bases(alias) == {Strip(Strip(alias) \o suffixes[k]) : k \in 1..Len(suffixes)}

\* the variations of an alias: each phrase alone, followed by a keyword, and after a keyword
Variations(alias) ==
    {q \in UNION {{b} \cup {b \o " " \o keywords[k] : k \in 1..Len(keywords)}
                      \cup {keywords[k] \o " " \o b : k \in 1..Len(keywords)} : b \in Bases(alias)} :
        q # ""}

\* the queries of the calls made to connector conn, in order
QueriesTo(conn) == [k \in 1..Len(CallsTo(conn)) |-> QueryOf(CallsTo(conn)[k])]

\* C11: the scrape connector gets queries of the first 24 entries of the query bank and
\* the news connector of the first 12; these 24 entries are distinct variations of the
\* alias at index 0 and the start of what build_query_variations gives for it, whatever
\* the other aliases are; the instant-answer queries are the aliases themselves
C11_QueriesFromFirstAliasOnly ==
    (Called /\ entity_name # "") =>
        \E own \in {Variations(aliases[1])} :
        \E head \in {Take(query_bank, 24)} :
            /\ Len(head) = 24
            /\ NoDuplicates(head)
            /\ \A k \in 1..24 : head[k] \in own
            /\ head = Take(build_query_variations(aliases[1]), 24)
            /\ IsPrefix(QueriesTo("bing"), head)
            /\ IsPrefix(QueriesTo("news"), Take(head, 12))
            /\ \A k \in 1..Len(CallsTo("ddg")) :
                   QueriesTo("ddg")[k] = aliases[k] \o " sanctions OR fraud OR investigation"

\* C11 witness: a scan with three or more aliases, the first an adverse keyword or blank
\* (some of its variations coincide), has sent all 12 news queries and all 24 scrape queries
C11_Witness ==
    /\ pc = "sort"
    /\ Len(aliases) >= 3
    /\ Cardinality(Variations(aliases[1])) < 184
    /\ Len(CallsTo("news")) = 12
    /\ Len(CallsTo("bing")) = 24

=============================================================================
